---- MODULE Spec2Model ----
(***************************************************************************)
(* A model of the atomiclock crate (src/src/lib.rs): one AtomicLock<T>     *)
(* shared by a few threads, the Guards it hands out, and the threads'      *)
(* calls of lock(), unlock(), Guard drop and Guard deref / deref_mut.      *)
(*                                                                         *)
(* Memory ordering is modelled by "freshness": fresh[t] says that the      *)
(* latest write to the UnsafeCell happens-before thread t's next step, and *)
(* relFresh says that the store heading the release sequence of the flag   *)
(* carries that write.  A read by a thread that is not fresh is a data     *)
(* race, whose outcome is any value.                                       *)
(***************************************************************************)
EXTENDS Integers, FiniteSets, Sequences, TLC

\* ---------------------------------------------------------------- bounds
NThreads == 2
MaxAcquire == 2
MaxInit == 1

Threads == 1..NThreads
MaxVal == MaxInit + MaxAcquire
Values == 0..MaxVal

VARIABLES
    lock,       \* AtomicLock.lock : AtomicBool
    data,       \* AtomicLock.data : UnsafeCell<T>, the latest value written
    fresh,      \* fresh[t]: the latest write to data happens-before t
    relFresh,   \* the flag's release sequence carries the latest write
    held,       \* held[t]: the number of live Guards thread t owns
    pc,         \* pc[t]: "idle", "lock" (inside lock()), "panicking", "dead"
    ret,        \* ret[t]: the outcome of t's last completed operation
    tmp,        \* tmp[t]: the caller's local holding the last value it read
    acquired,   \* the number of lock() calls that returned Some
    committed,  \* the value of data when the last Guard was dropped
    initVal,    \* the value given to AtomicLock::new
    ev,         \* the last operation: its name, its thread, the flag it
                \* found and the number of unlock() calls it made
    direct,     \* unlock() has been called directly (not by a Guard's drop)
    aborted,    \* the process aborted (a panic while unwinding)
    released,   \* the number of unlock() calls that returned without fault
    fdepth      \* fdepth[t]: the frames of Debug::fmt of t that hold a Guard

vars == <<lock, data, fresh, relFresh, held, pc, ret, tmp, acquired,
          committed, initVal, ev, direct, aborted, released, fdepth>>

\* ------------------------------------------------------- atomic orderings
\* Faulty variant: the compare-exchange succeeds with Relaxed ordering.
SuccessRelaxed == "Relaxed"

SuccessOrdering == "Acquire"
FailureOrdering == "Relaxed"
UnlockOrdering == "Release"

IsAcquire(ord) == ord \in {"Acquire", "AcqRel", "SeqCst"}
IsRelease(ord) == ord \in {"Release", "AcqRel", "SeqCst"}

\* What a load of the flag with ordering ord makes of the loader's freshness.
LoadSync(ord, mine, rel) == IF IsAcquire(ord) THEN mine \/ rel ELSE mine

\* What a read-modify-write of the flag with ordering ord makes of the
\* release sequence: a release publishes the storer's writes, and any
\* read-modify-write continues the sequence it read from.
StoreSync(ord, mine, rel) == IF IsRelease(ord) THEN mine \/ rel ELSE rel

\* Faulty variant: the exchange compares the flag with new, not current.
CompareExchangeWrongOperand(cur, current, new) ==
    IF cur = new
    THEN {[ok |-> TRUE, flag |-> new]}
    ELSE {[ok |-> FALSE, flag |-> cur]}

\* Faulty variant: a failed exchange stores new all the same.
CompareExchangeClobber(cur, current, new) ==
    IF cur = current
    THEN {[ok |-> TRUE, flag |-> new], [ok |-> FALSE, flag |-> new]}
    ELSE {[ok |-> FALSE, flag |-> new]}

\* Faulty variant: the exchange stores new without comparing.
CompareExchangeBlind(cur, current, new) == {[ok |-> TRUE, flag |-> new]}

\* AtomicBool::compare_exchange_weak(current, new, ..): the possible outcomes
\* on a flag holding cur.  The weak form may fail although cur = current.
CompareExchangeWeak(cur, current, new) ==
    IF cur = current
    THEN {[ok |-> TRUE, flag |-> new], [ok |-> FALSE, flag |-> cur]}
    ELSE {[ok |-> FALSE, flag |-> cur]}

\* AtomicBool::swap(new, ..) on a flag holding cur.
Swap(cur, new) == [old |-> cur, flag |-> new]

\* ------------------------------------------------------------ AtomicLock
RECURSIVE SumHeld(_, _)
SumHeld(h, S) ==
    IF S = {} THEN 0
    ELSE LET t == CHOOSE x \in S : TRUE IN h[t] + SumHeld(h, S \ {t})

\* The number of live Guards of the lock.
Guards == SumHeld(held, Threads)

\* The lock() calls under way: those of callers and those of a Debug
\* formatting that holds no Guard yet.
Pending ==
    Cardinality({t \in Threads :
                    pc[t] = "lock" \/ (pc[t] = "fmt" /\ fdepth[t] = 0)})

\* Faulty variant: a constructor that leaves the flag set.
NewLocked(v) ==
    /\ lock = TRUE
    /\ data = v

\* AtomicLock::new(v)
New(v) ==
    /\ lock = FALSE
    /\ data = v

\* From<T> for AtomicLock
From(v) == New(v)

\* T::default() of the protected value.
TDefault == 0

\* Default for AtomicLock
Default == New(TDefault)

Constructed(c) == ev = [op |-> c, t |-> 0, old |-> FALSE, unlocks |-> 0]

\* The value the lock was built around, as the program wrote it.
Given(v) == initVal = v /\ committed = v

Init ==
    /\ \/ \E v \in 0..MaxInit : Given(v) /\ New(v) /\ Constructed("new")
       \/ \E v \in 0..MaxInit : Given(v) /\ From(v) /\ Constructed("from")
       \/ Given(TDefault) /\ Default /\ Constructed("default")
    /\ fresh = [t \in Threads |-> TRUE]
    /\ relFresh = TRUE
    /\ held = [t \in Threads |-> 0]
    /\ pc = [t \in Threads |-> "idle"]
    /\ ret = [t \in Threads |-> "init"]
    /\ tmp = [t \in Threads |-> 0]
    /\ acquired = 0
    /\ direct = FALSE
    /\ aborted = FALSE
    /\ released = 0
    /\ fdepth = [t \in Threads |-> 0]

\* A thread enters lock().
LockCall(t) ==
    /\ ~aborted
    /\ pc[t] = "idle"
    /\ acquired + Pending < MaxAcquire
    /\ pc' = [pc EXCEPT ![t] = "lock"]
    /\ ev' = [op |-> "call", t |-> t, old |-> lock, unlocks |-> 0]
    /\ UNCHANGED <<lock, data, fresh, relFresh, held, ret, tmp, acquired,
                   committed, initVal, direct, aborted, released, fdepth>>

\* Faulty variant: the arms of the match are swapped.
LockResultSwapped(r) == IF r.ok THEN "None" ELSE "Some"

\* The match on the compare-exchange of lock(): the outcome r of the
\* compare-exchange decides between Some(Guard) and None.
LockResult(r) == IF r.ok THEN "Some" ELSE "None"

\* Faulty variant: lock() tries again when the compare-exchange fails.
AfterCASRetry(r) == IF r.ok THEN "idle" ELSE "lock"

\* Where lock() goes after the compare-exchange: both arms of the match
\* return to the caller.
AfterCAS(r) == "idle"

\* lock(): the compare-exchange, the construction of the Guard, the return.
LockCAS(t) ==
    /\ ~aborted
    /\ pc[t] = "lock"
    /\ \E r \in CompareExchangeWeak(lock, FALSE, TRUE) :
        /\ lock' = r.flag
        /\ ret' = [ret EXCEPT ![t] = LockResult(r)]
        /\ IF LockResult(r) = "Some"
           THEN /\ held' = [held EXCEPT ![t] = @ + 1]
                /\ acquired' = acquired + 1
           ELSE UNCHANGED <<held, acquired>>
        /\ fresh' = [fresh EXCEPT ![t] =
                        LoadSync(IF r.ok THEN SuccessOrdering
                                 ELSE FailureOrdering, @, relFresh)]
        /\ pc' = [pc EXCEPT ![t] = AfterCAS(r)]
    /\ ev' = [op |-> "lock", t |-> t, old |-> lock, unlocks |-> 0]
    /\ UNCHANGED <<data, relFresh, tmp, committed, initVal, direct,
                   aborted, released, fdepth>>

\* Faulty variant: unlock() swaps true into the flag.
UnlockStoresTrue(cur) == [flag |-> TRUE, ok |-> (cur = TRUE), calls |-> 1]

\* Faulty variant: unlock() without the assertion.
UnlockNoAssert(cur) == [flag |-> FALSE, ok |-> TRUE, calls |-> 1]

\* Faulty variant: unlock() asserting that the flag was clear.
UnlockAssertClear(cur) == [flag |-> FALSE, ok |-> (cur = FALSE), calls |-> 1]

\* unlock() on a flag holding cur: the swap and the assertion.
UnlockEffect(cur) ==
    LET s == Swap(cur, FALSE)
    IN  [flag |-> s.flag, ok |-> (s.old = TRUE), calls |-> 1]

\* The calls of unlock() among those of effect u that returned to their
\* caller: all of them when no assertion failed, all but the last otherwise.
Returned(u) == IF u.ok THEN u.calls ELSE u.calls - 1

\* A direct call of unlock().
Unlock(t) ==
    /\ ~aborted
    /\ pc[t] = "idle"
    /\ LET u == UnlockEffect(lock)
       IN  /\ lock' = u.flag
           /\ relFresh' = StoreSync(UnlockOrdering, fresh[t], relFresh)
           /\ ret' = [ret EXCEPT ![t] = IF u.ok THEN "unlocked" ELSE "panic"]
           /\ pc' = [pc EXCEPT ![t] = IF u.ok THEN "idle" ELSE "panicking"]
           /\ ev' = [op |-> "unlock", t |-> t, old |-> lock, unlocks |-> u.calls]
           /\ released' = released + Returned(u)
    /\ direct' = TRUE
    /\ UNCHANGED <<data, fresh, held, tmp, acquired, committed, initVal,
                   aborted, fdepth>>

\* Faulty variant: the drop does not call unlock().
DropNoUnlock(cur) == [flag |-> cur, ok |-> TRUE, calls |-> 0]

\* Faulty variant: the drop calls unlock() twice; the second call finds the flag
\* clear.
DropTwice(cur) == [flag |-> FALSE, ok |-> FALSE, calls |-> 2]

\* Drop for Guard, on a flag holding cur: what its calls of unlock() do.
DropEffect(cur) == UnlockEffect(cur)

\* Faulty variant: the release faults on a thread that was handed the Guard,
\* as the unlock of an OS mutex does.
DropByLocker(t, cur) ==
    IF ret[t] = "received"
    THEN [flag |-> cur, ok |-> FALSE, calls |-> 1]
    ELSE DropEffect(cur)

\* Drop for Guard as run by thread t: the lock and the Guard record no
\* thread, so the drop does the same on every thread.
DropBy(t, cur) == DropEffect(cur)

\* A Guard owned by t goes out of scope: at the end of its scope or at an
\* early return (pc "idle"), or while t unwinds from a panic ("panicking").
\* A failed assertion while unwinding aborts the process.  The caller's
\* local goes out of scope with its last Guard.
Drop(t) ==
    /\ ~aborted
    /\ pc[t] \in {"idle", "panicking"}
    /\ held[t] > 0
    /\ LET d == DropBy(t, lock)
       IN  /\ lock' = d.flag
           /\ relFresh' = StoreSync(UnlockOrdering, fresh[t], relFresh)
           /\ ret' = [ret EXCEPT ![t] = IF d.ok THEN "dropped" ELSE "panic"]
           /\ pc' = [pc EXCEPT ![t] = IF d.ok THEN @ ELSE "panicking"]
           /\ aborted' = (~d.ok /\ pc[t] = "panicking")
           /\ ev' = [op |-> "drop", t |-> t, old |-> lock, unlocks |-> d.calls]
           /\ released' = released + Returned(d)
    /\ held' = [held EXCEPT ![t] = @ - 1]
    /\ tmp' = [tmp EXCEPT ![t] = IF held[t] = 1 THEN 0 ELSE @]
    /\ committed' = data
    /\ UNCHANGED <<data, fresh, acquired, initVal, direct, fdepth>>

\* A panicking thread that has dropped all its Guards ends.
Unwound(t) ==
    /\ ~aborted
    /\ pc[t] = "panicking"
    /\ held[t] = 0
    /\ pc' = [pc EXCEPT ![t] = "dead"]
    /\ ev' = [op |-> "unwound", t |-> t, old |-> lock, unlocks |-> 0]
    /\ UNCHANGED <<lock, data, fresh, relFresh, held, ret, tmp, acquired,
                   committed, initVal, direct, aborted, released, fdepth>>

\* ------------------------------------------------------------------ Guard
\* The values a read through a Guard of thread t can produce.
ReadOutcomes(t) == IF fresh[t] THEN {data} ELSE Values

\* Deref for Guard: the caller reads the value into a local.
Read(t) ==
    /\ ~aborted
    /\ pc[t] = "idle"
    /\ held[t] > 0
    /\ \E v \in ReadOutcomes(t) : tmp' = [tmp EXCEPT ![t] = v]
    /\ ret' = [ret EXCEPT ![t] = "read"]
    /\ ev' = [op |-> "read", t |-> t, old |-> lock, unlocks |-> 0]
    /\ UNCHANGED <<lock, data, fresh, relFresh, held, pc, acquired,
                   committed, initVal, direct, aborted, released, fdepth>>

\* DerefMut for Guard: the caller stores v.
Write(t, v) ==
    /\ ~aborted
    /\ pc[t] = "idle"
    /\ held[t] > 0
    /\ data' = v
    /\ fresh' = [u \in Threads |-> u = t]
    /\ relFresh' = FALSE
    /\ ret' = [ret EXCEPT ![t] = "written"]
    /\ ev' = [op |-> "write", t |-> t, old |-> lock, unlocks |-> 0]
    /\ UNCHANGED <<lock, held, pc, tmp, acquired, committed, initVal,
                   direct, aborted, released, fdepth>>

\* Faulty variant: the formatting takes a Guard without the exchange.
FmtPeek(cur) == {[ok |-> TRUE, flag |-> cur]}

\* Debug for AtomicLock, `let guard = self.lock()`: the outcomes of the
\* exchange on a flag holding cur.
FmtAcquire(cur) == CompareExchangeWeak(cur, FALSE, TRUE)

\* Debug for AtomicLock is called on thread t, which may hold a Guard.
FmtCall(t) ==
    /\ ~aborted
    /\ pc[t] = "idle"
    /\ acquired + Pending < MaxAcquire
    /\ pc' = [pc EXCEPT ![t] = "fmt"]
    /\ ev' = [op |-> "fmt_call", t |-> t, old |-> lock, unlocks |-> 0]
    /\ UNCHANGED <<lock, data, fresh, relFresh, held, ret, tmp, acquired,
                   committed, initVal, direct, aborted, released, fdepth>>

\* The lock() of the formatting.  None: the None arm writes locked: true
\* and "<Locked>" and returns, to the caller or, for a formatting nested
\* in that of a Guard, to the Guard's formatting.  Some: the Some arm
\* formats the Guard, whose derived Debug first formats its `lock` field,
\* the same lock again, which is a nested call of this formatting.
FmtLock(t) ==
    /\ ~aborted
    /\ pc[t] = "fmt"
    /\ \E r \in FmtAcquire(lock) :
        /\ LockResult(r) = "Some" => acquired < MaxAcquire
        /\ lock' = r.flag
        /\ fresh' = [fresh EXCEPT ![t] =
                        LoadSync(IF r.ok THEN SuccessOrdering
                                 ELSE FailureOrdering, @, relFresh)]
        /\ IF LockResult(r) = "Some"
           THEN /\ held' = [held EXCEPT ![t] = @ + 1]
                /\ acquired' = acquired + 1
                /\ fdepth' = [fdepth EXCEPT ![t] = @ + 1]
                /\ pc' = pc
                /\ ret' = ret
           ELSE /\ pc' = [pc EXCEPT ![t] =
                            IF fdepth[t] > 0 THEN "fmt_data" ELSE "idle"]
                /\ ret' = [ret EXCEPT ![t] = "<Locked>"]
                /\ UNCHANGED <<held, acquired, fdepth>>
    /\ ev' = [op |-> "fmt_lock", t |-> t, old |-> lock, unlocks |-> 0]
    /\ UNCHANGED <<data, relFresh, tmp, committed, initVal, direct,
                   aborted, released>>

\* The derived Debug for Guard, after its `lock` field, formats its `data`
\* field: it reads the value through the Guard.
FmtData(t) ==
    /\ ~aborted
    /\ pc[t] = "fmt_data"
    /\ \E v \in ReadOutcomes(t) : tmp' = [tmp EXCEPT ![t] = v]
    /\ pc' = [pc EXCEPT ![t] = "fmt_drop"]
    /\ ev' = [op |-> "fmt_data", t |-> t, old |-> lock, unlocks |-> 0]
    /\ UNCHANGED <<lock, data, fresh, relFresh, held, ret, acquired,
                   committed, initVal, direct, aborted, released, fdepth>>

\* The Some arm ends: its Guard is dropped and the formatting returns, to
\* the caller or to the formatting of the Guard it is nested in.
FmtDrop(t) ==
    /\ ~aborted
    /\ pc[t] = "fmt_drop"
    /\ LET d == DropBy(t, lock)
       IN  /\ lock' = d.flag
           /\ relFresh' = StoreSync(UnlockOrdering, fresh[t], relFresh)
           /\ ret' = [ret EXCEPT ![t] = IF d.ok THEN "<Value>" ELSE "panic"]
           /\ pc' = [pc EXCEPT ![t] =
                        IF ~d.ok THEN "panicking"
                        ELSE IF fdepth[t] > 1 THEN "fmt_data" ELSE "idle"]
           /\ ev' = [op |-> "fmt_drop", t |-> t, old |-> lock,
                     unlocks |-> d.calls]
           /\ released' = released + Returned(d)
    /\ held' = [held EXCEPT ![t] = @ - 1]
    /\ fdepth' = [fdepth EXCEPT ![t] = @ - 1]
    /\ tmp' = [tmp EXCEPT ![t] = IF held[t] = 1 THEN 0 ELSE @]
    /\ committed' = data
    /\ UNCHANGED <<data, fresh, acquired, initVal, direct, aborted>>

\* Faulty variant: data() sets the flag as lock() does.
DataTakesFlag(cur) == TRUE

\* The flag after data() found it holding cur: data() hands out the cell's
\* pointer and does not touch the flag.
DataFlag(cur) == cur

\* unsafe data(): thread t, with or without a Guard, reads the value
\* through the returned reference and keeps no copy of what it read.
DataRead(t) ==
    /\ ~aborted
    /\ pc[t] = "idle"
    /\ lock' = DataFlag(lock)
    /\ \E v \in ReadOutcomes(t) : v \in Values
    /\ ret' = [ret EXCEPT ![t] = "data_read"]
    /\ ev' = [op |-> "data_read", t |-> t, old |-> lock, unlocks |-> 0]
    /\ UNCHANGED <<data, fresh, relFresh, held, pc, tmp, acquired,
                   committed, initVal, direct, aborted, released, fdepth>>

\* unsafe data(): thread t stores v through the returned reference.
DataWrite(t, v) ==
    /\ ~aborted
    /\ pc[t] = "idle"
    /\ lock' = DataFlag(lock)
    /\ data' = v
    /\ fresh' = [u \in Threads |-> u = t]
    /\ relFresh' = FALSE
    /\ ret' = [ret EXCEPT ![t] = "data_written"]
    /\ ev' = [op |-> "data_write", t |-> t, old |-> lock, unlocks |-> 0]
    /\ UNCHANGED <<held, pc, tmp, acquired, committed, initVal, direct,
                   aborted, released, fdepth>>

\* Send for Guard: thread t hands a Guard to a thread u that has not used
\* the lock yet (a Guard moved into a new thread).  The hand-over
\* synchronizes: what happened before it on t happens before u goes on.
Transfer(t, u) ==
    /\ ~aborted
    /\ t # u
    /\ pc[t] = "idle" /\ held[t] > 0
    /\ pc[u] = "idle" /\ ret[u] = "init"
    /\ held' = [held EXCEPT ![t] = @ - 1, ![u] = @ + 1]
    /\ fresh' = [fresh EXCEPT ![u] = @ \/ fresh[t]]
    /\ tmp' = [tmp EXCEPT ![t] = IF held[t] = 1 THEN 0 ELSE @]
    /\ ret' = [ret EXCEPT ![t] = "sent", ![u] = "received"]
    /\ ev' = [op |-> "send", t |-> t, old |-> lock, unlocks |-> 0]
    /\ UNCHANGED <<lock, data, relFresh, pc, acquired, committed, initVal,
                   direct, aborted, released, fdepth>>

\* The traits the crate implements for Guard: the derive, Drop, Display,
\* AsRef, AsMut, Deref, DerefMut and Send.
GuardImpls ==
    {"Debug", "Drop", "Display", "AsRef", "AsMut", "Deref", "DerefMut",
     "Send"}

\* The trait an operator on two Guards needs.
TraitOf(op) ==
    CASE op = "eq" -> "PartialEq"
      [] op = "lt" -> "PartialOrd"
      [] op = "hash" -> "Hash"

\* An operator applied to Guards wrapping a and b: the answer of the
\* wrapped values when Guard implements the operator's trait, and no
\* answer (the expression does not compile) when it does not.
GuardCompare(op, a, b) ==
    IF TraitOf(op) \notin GuardImpls THEN "unsupported"
    ELSE CASE op = "eq" -> IF a = b THEN "true" ELSE "false"
           [] op = "lt" -> IF a < b THEN "true" ELSE "false"
           [] op = "hash" -> IF a = b THEN "true" ELSE "false"

\* Faulty variant: into_inner() returns the value the lock was built with.
IntoInnerStale == initVal

\* UnsafeCell::into_inner of the data field: the content of the cell.
IntoInnerValue == data

\* into_inner(self): thread t owns the lock outright, so no thread is
\* inside one of its methods and no Guard borrows it; getting that
\* ownership back synchronizes with every earlier use.  The lock is
\* consumed: no thread can use it afterwards.
IntoInner(t) ==
    /\ ~aborted
    /\ \A u \in Threads : pc[u] = "idle" /\ held[u] = 0
    /\ tmp' = [tmp EXCEPT ![t] = IntoInnerValue]
    /\ ret' = [ret EXCEPT ![t] = "inner"]
    /\ pc' = [u \in Threads |-> "moved"]
    /\ ev' = [op |-> "into_inner", t |-> t, old |-> lock, unlocks |-> 0]
    /\ UNCHANGED <<lock, data, fresh, relFresh, held, acquired, committed,
                   initVal, direct, aborted, released, fdepth>>

\* The values a caller stores: a constant, or one more than it last read.
Stores(t) == ((0..MaxInit) \cup {tmp[t] + 1}) \cap Values

\* --------------------------------------------------------- specifications
\* Callers that use lock() and the Guards it returns, and nothing else.
NextNormal ==
    \E t \in Threads :
        \/ LockCall(t)
        \/ LockCAS(t)
        \/ Drop(t)
        \/ Read(t)
        \/ \E v \in Stores(t) : Write(t, v)

SpecNormal == Init /\ [][NextNormal]_vars

\* All the public operations, unlock() included.
Next ==
    \E t \in Threads :
        \/ LockCall(t)
        \/ LockCAS(t)
        \/ Unlock(t)
        \/ Drop(t)
        \/ Unwound(t)
        \/ Read(t)
        \/ \E v \in Stores(t) : Write(t, v)

Spec == Init /\ [][Next]_vars

\* The operations on the flag: lock(), unlock() and Guard drop.
NextFlag ==
    \E t \in Threads :
        \/ LockCall(t)
        \/ LockCAS(t)
        \/ Unlock(t)
        \/ Drop(t)
        \/ Unwound(t)

SpecFlag == Init /\ [][NextFlag]_vars

\* Callers that each try lock() and, when they get a Guard, increment the
\* value by a read and a write through it before they drop it.
CounterLock(t) == ret[t] \in {"init", "None", "dropped"} /\ LockCall(t)
CounterRead(t) == ret[t] = "Some" /\ Read(t)
CounterWrite(t) == ret[t] = "read" /\ Write(t, tmp[t] + 1)
CounterDrop(t) == ret[t] = "written" /\ Drop(t)

NextCounter ==
    \E t \in Threads :
        \/ CounterLock(t)
        \/ LockCAS(t)
        \/ CounterRead(t)
        \/ CounterWrite(t)
        \/ CounterDrop(t)

SpecCounter == Init /\ [][NextCounter]_vars

\* A thread inside lock() runs on: its compare-exchange is executed.
SpecLive == SpecNormal /\ \A t \in Threads : WF_vars(LockCAS(t))

\* Callers that use lock() and its Guards, and one that takes the value
\* out of the lock in the end.
NextOwner ==
    \E t \in Threads :
        \/ LockCall(t)
        \/ LockCAS(t)
        \/ Drop(t)
        \/ Read(t)
        \/ \E v \in Stores(t) : Write(t, v)
        \/ IntoInner(t)

SpecOwner == Init /\ [][NextOwner]_vars

\* Callers that use lock() and its Guards and Debug-format the lock.
NextDebug ==
    \E t \in Threads :
        \/ LockCall(t)
        \/ LockCAS(t)
        \/ Drop(t)
        \/ \E v \in Stores(t) : Write(t, v)
        \/ FmtCall(t)
        \/ FmtLock(t)
        \/ FmtData(t)
        \/ FmtDrop(t)

SpecDebug == Init /\ [][NextDebug]_vars

\* Callers that take and drop Guards and reach the value through data()
\* only.
NextData ==
    \E t \in Threads :
        \/ LockCall(t)
        \/ LockCAS(t)
        \/ Drop(t)
        \/ DataRead(t)
        \/ \E v \in 0..MaxInit : DataWrite(t, v)

SpecData == Init /\ [][NextData]_vars

\* Callers that use lock() and its Guards and hand Guards to other threads.
NextTransfer ==
    \E t \in Threads :
        \/ LockCall(t)
        \/ LockCAS(t)
        \/ Drop(t)
        \/ Read(t)
        \/ \E v \in Stores(t) : Write(t, v)
        \/ \E u \in Threads : Transfer(t, u)

SpecTransfer == Init /\ [][NextTransfer]_vars

\* Callers that call lock() again and again until it returns Some, and
\* drop the Guard they get.
RetryCall(t) == ret[t] \in {"init", "None", "dropped"} /\ LockCall(t)
RetryDrop(t) == ret[t] = "Some" /\ Drop(t)

\* The compare-exchange of lock() succeeds.
LockSome(t) == LockCAS(t) /\ ret'[t] = "Some"

NextRetry ==
    \E t \in Threads :
        \/ RetryCall(t)
        \/ LockCAS(t)
        \/ RetryDrop(t)

\* The callers run on, and a weak compare-exchange that is attempted on a
\* clear flag again and again does not fail every time.
SpecRetry ==
    /\ Init /\ [][NextRetry]_vars
    /\ \A t \in Threads :
        /\ WF_vars(RetryCall(t))
        /\ WF_vars(LockCAS(t))
        /\ SF_vars(LockSome(t))

TypeOK ==
    /\ lock \in BOOLEAN
    /\ data \in Values
    /\ fresh \in [Threads -> BOOLEAN]
    /\ relFresh \in BOOLEAN
    /\ held \in [Threads -> 0..MaxAcquire]
    /\ pc \in [Threads -> {"idle", "lock", "panicking", "dead", "moved",
                           "fmt", "fmt_data", "fmt_drop"}]
    /\ ret \in [Threads -> {"init", "Some", "None", "unlocked", "dropped",
                            "panic", "read", "written", "inner", "sent",
                            "received", "data_read", "data_written",
                            "<Locked>", "<Value>"}]
    /\ tmp \in [Threads -> Values]
    /\ acquired \in 0..MaxAcquire
    /\ committed \in Values
    /\ initVal \in 0..MaxInit
    /\ direct \in BOOLEAN
    /\ aborted \in BOOLEAN
    /\ released \in 0..MaxAcquire
    /\ fdepth \in [Threads -> 0..MaxAcquire]

\* ------------------------------------------------------------------ claims
\* C1 (mutual exclusion): callers that use lock() and release only by
\* dropping the Guard they got never hold two Guards of the lock at once.
C1_MutualExclusion == Guards <= 1

\* A Guard is alive while another thread is inside lock().
C1_Witness ==
    \E t, u \in Threads : t # u /\ held[t] = 1 /\ pc[u] = "lock"

\* C2 as stated: through lock(), unlock() and Guard drop, the flag is true
\* exactly when some Guard exists.
C2_FlagIffGuard == lock <=> Guards > 0

\* C2 as amended: the flag is true only when some Guard exists, and as long
\* as unlock() has not been called directly the flag is true whenever some
\* Guard exists.
C2_FlagGuard ==
    /\ lock => Guards > 0
    /\ ~direct => (Guards > 0 => lock)

\* A Guard exists with the flag set, and one has been dropped before.
C2_Witness ==
    /\ ~direct /\ lock /\ Guards = 1 /\ acquired = 2
    /\ ev.op = "lock"

\* C3 as stated: a lock() made while a Guard is alive returns None and
\* makes no Guard.
C3_NoAcquireWhileHeld ==
    [][\A t \in Threads :
        (pc[t] = "lock" /\ pc'[t] = "idle" /\ Guards > 0)
            => (ret'[t] = "None" /\ held' = held)]_vars

\* C3 as amended: as long as unlock() has not been called directly, a
\* lock() made while a Guard is alive returns None and makes no Guard.
C3_NoAcquireWhileGuarded ==
    [][\A t \in Threads :
        (pc[t] = "lock" /\ pc'[t] = "idle" /\ Guards > 0 /\ ~direct)
            => (ret'[t] = "None" /\ held' = held /\ lock')]_vars

\* A thread that holds the Guard has called lock() again and got None.
C3_Witness ==
    \E t \in Threads :
        /\ ev.op = "lock" /\ ev.t = t /\ ev.old /\ ~direct
        /\ held[t] = 1 /\ ret[t] = "None"

\* A lock() made after a Guard was dropped, while no Guard is alive and no
\* other caller is inside lock().
AfterRelease(t) ==
    /\ pc[t] = "lock" /\ pc'[t] = "idle"
    /\ acquired > 0 /\ Guards = 0 /\ Pending = 1

\* C4 as stated: after a Guard has been dropped, the next lock(), made
\* while no other caller holds or is acquiring the lock, returns Some.
C4_ReleaseThenSome ==
    [][\A t \in Threads : AfterRelease(t) => ret'[t] = "Some"]_vars

\* C4 as amended: after a Guard has been dropped the flag is false, and the
\* next lock(), made while no other caller holds or is acquiring the lock,
\* returns Some(Guard) unless its weak compare-exchange fails spuriously;
\* then it returns None and leaves the flag false.
C4_ReleaseThenFree ==
    [][\A t \in Threads : AfterRelease(t) =>
        /\ ~lock
        /\ \/ ret'[t] = "Some" /\ lock' /\ held'[t] = held[t] + 1
           \/ ret'[t] = "None" /\ ~lock' /\ held' = held]_vars

\* The second acquisition: a lock() that found the flag clear after the
\* first Guard was dropped, and returned Some.
C4_Witness ==
    /\ ev.op = "lock" /\ ~ev.old /\ ret[ev.t] = "Some"
    /\ acquired = 2 /\ Guards = 1 /\ Pending = 0

\* C5 (visibility): the value a caller reads through the Guard it has just
\* got is the value the cell held when the preceding Guard was dropped (the
\* construction value if there was none).
C5_Visibility ==
    [][\A t \in Threads :
        (ret[t] = "Some" /\ ret'[t] = "read") => tmp'[t] = committed]_vars

\* Thread u changed the value under the first Guard and dropped it; thread
\* t reads that value under the second Guard.
C5_Witness ==
    \E t, u \in Threads :
        /\ t # u /\ ret[u] = "dropped" /\ acquired = 2 /\ held[t] = 1
        /\ ev.op = "read" /\ ev.t = t /\ ret[t] = "read"
        /\ committed # initVal /\ tmp[t] = committed

\* No caller is inside lock() or holds a Guard.
Quiescent == \A t \in Threads : pc[t] # "lock" /\ held[t] = 0

\* C6 (no lost updates): when the callers that got a Guard have each
\* incremented the value by a read and a write and dropped the Guard, the
\* value is the construction value plus the number of acquisitions.
C6_NoLostUpdates == Quiescent => data = initVal + acquired

\* Both threads have acquired, incremented and dropped.
C6_Witness ==
    /\ Quiescent /\ acquired = 2 /\ data = initVal + 2
    /\ \A t \in Threads : ret[t] = "dropped"

\* C7 (double-release fatality): a direct unlock() that finds the flag
\* already false ends in the fault state and does not return normally.
C7_DoubleReleaseFaults ==
    \A t \in Threads :
        (ev.op = "unlock" /\ ev.t = t /\ ~ev.old)
            => (ret[t] = "panic" /\ pc[t] = "panicking")

\* unlock() was called with no Guard outstanding and the flag false.
C7_Witness ==
    /\ ev.op = "unlock" /\ ~ev.old /\ Guards = 0
    /\ ret[ev.t] = "panic"

\* C8 (release exactly once): the end of a Guard, on the normal path and
\* while unwinding, calls unlock() exactly once and leaves the flag false;
\* and apart from direct calls of unlock(), the end of a Guard is the only
\* step that takes the flag from true to false.
C8_DropReleasesOnce ==
    [][/\ Guards' < Guards =>
            /\ ev'.op = "drop" /\ ev'.unlocks = 1
            /\ ~lock' /\ Guards' = Guards - 1
       /\ (lock /\ ~lock' /\ ev'.op # "unlock") =>
            (ev'.op = "drop" /\ Guards' = Guards - 1)]_vars

\* A Guard was dropped while its thread unwound from a panic, and its one
\* unlock() cleared the flag.
C8_Witness ==
    /\ ev.op = "drop" /\ ev.unlocks = 1 /\ ev.old /\ ~lock
    /\ pc[ev.t] = "panicking" /\ ret[ev.t] = "dropped"

\* C9 (normal usage never double-releases): with lock() and Guard drop
\* only, the assertion of unlock() never fails.
C9_NoDoubleRelease ==
    /\ ~aborted
    /\ \A t \in Threads : ret[t] # "panic" /\ pc[t] \in {"idle", "lock"}

\* The second Guard has been dropped without a fault.
C9_Witness ==
    /\ ev.op = "drop" /\ ev.old /\ ret[ev.t] = "dropped"
    /\ acquired = 2 /\ Guards = 0

\* C10 (non-blocking acquire): the step a thread takes inside lock() is its
\* one compare-exchange, after which it is back at the caller with Some or
\* None; and every thread inside lock() gets back to its caller, whatever
\* the other threads do with their Guards.
C10_NonBlocking ==
    /\ [][\A t \in Threads :
            (pc[t] = "lock" /\ ev' # ev /\ ev'.t = t) =>
                /\ ev'.op = "lock"
                /\ pc'[t] = "idle"
                /\ ret'[t] \in {"Some", "None"}]_vars
    /\ \A t \in Threads : (pc[t] = "lock") ~> (pc[t] = "idle")

\* A lock() returned None at once while another thread held the Guard.
C10_Witness ==
    \E t, u \in Threads :
        /\ t # u /\ held[u] = 1
        /\ ev.op = "lock" /\ ev.t = t /\ ev.old
        /\ pc[t] = "idle" /\ ret[t] = "None"

\* C11 (eventual success on retry): a caller that is inside lock() while
\* no Guard is alive, and that calls again whenever it gets None, gets a
\* Guard eventually, unless another caller gets one first.
C11_RetrySucceeds ==
    \A t \in Threads :
        (pc[t] = "lock" /\ Guards = 0)
            ~> (held[t] > 0 \/ \E u \in Threads : u # t /\ held[u] > 0)

\* The first Guard of the lock has just been handed to t, after a lock() of
\* u on the free lock had returned None.
C11_Witness ==
    \E t, u \in Threads :
        /\ t # u /\ acquired = 1
        /\ ev.op = "lock" /\ ev.t = t /\ ~ev.old
        /\ ret[t] = "Some" /\ held[t] = 1
        /\ pc[u] = "idle" /\ ret[u] = "None"

\* C12 (consuming extraction): into_inner() returns the value the last
\* Guard left in the cell, and the construction value when the lock was
\* never acquired.
C12_IntoInner ==
    \A t \in Threads :
        ret[t] = "inner" =>
            /\ tmp[t] = committed
            /\ acquired = 0 => tmp[t] = initVal

\* into_inner() returned a value that was written through a Guard.
C12_Witness ==
    \E t \in Threads :
        /\ ev.op = "into_inner" /\ ev.t = t /\ ret[t] = "inner"
        /\ acquired > 0 /\ tmp[t] = committed /\ committed # initVal

\* C13 (delegated comparisons): a Guard compares equal to a Guard wrapping
\* the same value, less than a Guard wrapping a larger value, and hashes
\* like a Guard wrapping the same value; Guards wrapping 3 and 3 are equal
\* and a Guard wrapping 3 is less than one wrapping 5.
C13_DelegatedComparisons ==
    /\ GuardCompare("eq", 3, 3) = "true"
    /\ GuardCompare("lt", 3, 5) = "true"
    /\ \A t \in Threads :
        held[t] > 0 =>
            /\ GuardCompare("eq", data, data) = "true"
            /\ GuardCompare("lt", data, data + 1) = "true"
            /\ GuardCompare("hash", data, data) = "true"

\* C14 (Guard transfer): the end of a Guard, on the thread that got it from
\* lock() or on a thread it was handed to, finds the flag true, clears it
\* and raises no fault.
C14_TransferredDrop ==
    [][Guards' < Guards =>
        /\ ev'.op = "drop"
        /\ lock /\ ~lock'
        /\ ret'[ev'.t] = "dropped" /\ pc'[ev'.t] = "idle"
        /\ ~aborted']_vars

\* Thread t got the only Guard and handed it to u, which never called
\* lock(); u has dropped it and the flag is clear.
C14_Witness ==
    \E t, u \in Threads :
        /\ t # u /\ acquired = 1 /\ ret[t] = "sent"
        /\ ev.op = "drop" /\ ev.t = u /\ ret[u] = "dropped"
        /\ ~lock /\ Guards = 0

\* C15 (construction): a lock just built by new(v), From::from(v) or
\* Default::default() has a clear flag, no Guard and the given value (the
\* default value for Default); building it raises no fault and leaves no
\* thread inside an operation.
C15_Construction ==
    ev.op \in {"new", "from", "default"} =>
        /\ ~lock
        /\ Guards = 0
        /\ data = initVal
        /\ ev.op = "default" => data = TDefault
        /\ ~aborted
        /\ \A t \in Threads : pc[t] = "idle" /\ ret[t] = "init"

\* A lock just built by From::from around the largest given value.
C15_Witness ==
    /\ ev.op = "from" /\ initVal = MaxInit
    /\ data = MaxInit /\ ~lock /\ Guards = 0

\* C16 (failed lock): a lock() call ends with Some or None and never with a
\* fault; when it ends with None the flag, the protected value and the
\* Guards of every thread are as they were before the call's exchange.
C16_FailedLockChangesNothing ==
    [][\A t \in Threads :
        (pc[t] = "lock" /\ pc'[t] # "lock") =>
            /\ pc'[t] = "idle"
            /\ ret'[t] \in {"Some", "None"}
            /\ ~aborted'
            /\ ret'[t] = "None" =>
                    /\ lock' = lock
                    /\ data' = data
                    /\ held' = held
                    /\ acquired' = acquired
                    /\ committed' = committed]_vars

\* lock() has just returned None to t against the Guard of another
\* thread, which still holds the flag and the value it wrote.
C16_Witness ==
    \E t, u \in Threads :
        /\ t # u /\ ev.op = "lock" /\ ev.t = t /\ ret[t] = "None"
        /\ ev.old /\ lock /\ held[u] = 1 /\ held[t] = 0
        /\ ret[u] = "written" /\ data # initVal

\* C17 (unchecked access): a read or a write through data(), by a thread
\* with or without a Guard and whether or not another thread has one,
\* leaves the flag, the Guards and every thread's position as they were,
\* so the outcomes of a following lock() or unlock() are what they would
\* have been without it; among callers that release only by dropping
\* Guards the flag stays true exactly while a Guard exists and no release
\* faults.
C17_DataBypassesFlag ==
    /\ [][ev'.op \in {"data_read", "data_write"} =>
            /\ lock' = lock
            /\ held' = held
            /\ pc' = pc
            /\ CompareExchangeWeak(lock', FALSE, TRUE)
                    = CompareExchangeWeak(lock, FALSE, TRUE)
            /\ UnlockEffect(lock') = UnlockEffect(lock)]_vars
    /\ [](/\ lock <=> Guards = 1
          /\ ~aborted
          /\ \A t \in Threads : pc[t] \in {"idle", "lock"})

\* Thread t has just stored a new value through data() while another
\* thread holds the Guard; the flag is still true.
C17_Witness ==
    \E t, u \in Threads :
        /\ t # u /\ ev.op = "data_write" /\ ev.t = t
        /\ held[u] = 1 /\ held[t] = 0 /\ lock /\ data # initVal

\* C18 (release accounting): over lock(), unlock() and Guard drops in any
\* order, the unlock() calls that returned without a fault never outnumber
\* the lock() calls that returned Some, the difference is 0 or 1, and the
\* flag is true exactly when it is 1.
C18_ReleaseAccounting ==
    /\ released <= acquired
    /\ acquired - released \in {0, 1}
    /\ lock <=> (acquired - released = 1)

\* Two lock() calls returned Some and two releases returned, one of them a
\* direct unlock(): the flag is clear although a Guard is still alive.
C18_Witness ==
    /\ acquired = 2 /\ released = 2 /\ direct
    /\ ~lock /\ Guards = 1 /\ ~aborted

\* C19 (Debug formatting, effect): among callers that release only by
\* dropping Guards, a Debug formatting whose lock() fails writes "<Locked>"
\* and returns at once, with the flag, the value, the Guards and the
\* locals as before, also on a thread that holds the Guard; one whose
\* lock() succeeds has read the current value when it returns, and returns
\* with its Guard dropped and the flag clear.
C19_DebugLeavesLock ==
    /\ [][\A t \in Threads :
            /\ (pc[t] = "fmt" /\ ev'.op = "fmt_lock" /\ ev'.t = t) =>
                    IF held'[t] = held[t]
                    THEN /\ ret'[t] = "<Locked>"
                         /\ lock' = lock /\ data' = data
                         /\ held' = held /\ tmp' = tmp
                         /\ pc'[t] = IF fdepth[t] > 0 THEN "fmt_data"
                                     ELSE "idle"
                         /\ ~aborted'
                    ELSE ~lock /\ lock' /\ held[t] = 0
            /\ (pc[t] = "fmt_drop" /\ pc'[t] # "fmt_drop") =>
                    /\ tmp[t] = data
                    /\ ~lock' /\ Guards' = 0 /\ fdepth'[t] = 0
                    /\ pc'[t] = "idle" /\ ret'[t] = "<Value>"
                    /\ ~aborted']_vars
    /\ [](\A t \in Threads : pc[t] = "idle" => fdepth[t] = 0)

\* Thread t holds the Guard and has just Debug-formatted the lock: the
\* formatting returned "<Locked>" and t still holds the flag.
C19_Witness ==
    \E t \in Threads :
        /\ held[t] = 1 /\ fdepth[t] = 0 /\ pc[t] = "idle"
        /\ ev.op = "fmt_lock" /\ ev.t = t /\ ret[t] = "<Locked>"
        /\ lock /\ Guards = 1

\* C20 (Debug formatting, contention): among callers that release only by
\* dropping Guards, the flag is true while a Debug formatting holds its
\* Guard, that Guard is the only Guard, the formatting never nests a
\* second one, and no release faults.
C20_DebugContends ==
    /\ \A t \in Threads : fdepth[t] > 0 => lock
    /\ \A t \in Threads : fdepth[t] <= 1
    /\ Guards <= 1
    /\ ~aborted
    /\ \A t \in Threads : pc[t] \notin {"panicking", "dead"}

\* While t is formatting and holds the only Guard, lock() has just
\* returned None to another thread.
C20_Witness ==
    \E t, u \in Threads :
        /\ t # u /\ fdepth[t] = 1 /\ held[t] = 1 /\ Guards = 1
        /\ ev.op = "lock" /\ ev.t = u /\ ev.old /\ ret[u] = "None"
        /\ lock
====
